---------------------------- MODULE Spec2Model ----------------------------
(***************************************************************************)
(* blender-camera: the frame encoders (models/frame.py), the EXR to PLY    *)
(* converter and the render lifecycle (blender.py,                         *)
(* scripts/render_frame_script.py).                                        *)
(*                                                                         *)
(* Floating-point values are modelled as exact rationals plus the three    *)
(* IEEE specials (NaN, +Inf, -Inf); float32 rounding is not modelled.      *)
(* A float is the tuple <<tag, n, d>>: <<"num", n, d>> is n/d in lowest    *)
(* terms with d > 0, <<"nan", 0, 1>>, <<"inf", 1, 1>>, <<"inf", -1, 1>>.   *)
(* The same tuple shape carries the non-float attribute values a           *)
(* duck-typed intrinsics object may hold: <<"none", 0, 1>> (Python None)   *)
(* and <<"bad", 0, 1>> (a value float() rejects), and <<"missing", 0, 1>>  *)
(* (the attribute does not exist).                                         *)
(***************************************************************************)
EXTENDS Integers, Sequences, FiniteSets, TLC

\* ------------------------------------------------------------------ bounds
\* Largest height and largest width of a frame buffer.
MaxDim == 3

\* ------------------------------------------------------- float arithmetic
Abs(i) == IF i < 0 THEN -i ELSE i

RECURSIVE GCD(_, _)
GCD(a, b) == IF b = 0 THEN a ELSE GCD(b, a % b)

Q(n, d) ==
    LET s == IF d < 0 THEN -1 ELSE 1
        g == GCD(Abs(n), Abs(d))
    IN  <<"num", (s * n) \div g, (s * d) \div g>>

Z(i) == <<"num", i, 1>>
NaN == <<"nan", 0, 1>>
PInf == <<"inf", 1, 1>>
NInf == <<"inf", -1, 1>>
PyNone == <<"none", 0, 1>>
PyBad == <<"bad", 0, 1>>
PyMissing == <<"missing", 0, 1>>

IsNum(a) == a[1] = "num"
IsNaN(a) == a[1] = "nan"
IsInf(a) == a[1] = "inf"
Sign(a) == IF a[2] > 0 THEN 1 ELSE IF a[2] < 0 THEN -1 ELSE 0

\* np.isfinite
IsFinite(a) == IsNum(a)

\* a <= b under IEEE comparison: any comparison with NaN is false.
FLeq(a, b) ==
    IF IsNaN(a) \/ IsNaN(b) THEN FALSE
    ELSE IF IsInf(a) THEN (a[2] < 0 \/ (IsInf(b) /\ b[2] > 0))
    ELSE IF IsInf(b) THEN b[2] > 0
    ELSE a[2] * b[3] <= b[2] * a[3]

FLess(a, b) ==
    IF IsNaN(a) \/ IsNaN(b) THEN FALSE ELSE ~FLeq(b, a)

FSub(a, b) ==
    IF IsNaN(a) \/ IsNaN(b) THEN NaN
    ELSE IF IsInf(a) THEN (IF IsInf(b) /\ b[2] = a[2] THEN NaN ELSE a)
    ELSE IF IsInf(b) THEN <<"inf", -b[2], 1>>
    ELSE Q(a[2] * b[3] - b[2] * a[3], a[3] * b[3])

FMul(a, b) ==
    IF IsNaN(a) \/ IsNaN(b) THEN NaN
    ELSE IF IsInf(a) \/ IsInf(b)
         THEN (IF Sign(a) * Sign(b) = 0 THEN NaN
               ELSE <<"inf", Sign(a) * Sign(b), 1>>)
    ELSE Q(a[2] * b[2], a[3] * b[3])

\* IEEE division as numpy scalars perform it (x/0 is +-Inf or NaN, never an
\* exception).
FDiv(a, b) ==
    IF IsNaN(a) \/ IsNaN(b) THEN NaN
    ELSE IF IsInf(a) THEN (IF IsInf(b) THEN NaN
                           ELSE <<"inf", a[2] * (IF b[2] < 0 THEN -1 ELSE 1), 1>>)
    ELSE IF IsInf(b) THEN Z(0)
    ELSE IF b[2] = 0 THEN (IF a[2] = 0 THEN NaN ELSE <<"inf", Sign(a), 1>>)
    ELSE Q(a[2] * b[3], a[3] * b[2])

\* Truncation toward zero of a finite value (the C cast float -> integer).
Trunc(a) == IF a[2] >= 0 THEN a[2] \div a[3] ELSE -((-a[2]) \div a[3])

Max(a, b) == IF a >= b THEN a ELSE b


\* ----------------------------------------------------------- numpy helpers
\* np.clip(a, lo, hi) = minimum(maximum(a, lo), hi); NaN propagates.
NpClip(a, lo, hi) ==
    IF IsNaN(a) THEN NaN
    ELSE IF FLess(a, lo) THEN lo
    ELSE IF FLess(hi, a) THEN hi
    ELSE a

\* The platforms' float -> uint8 conversions.  A value whose truncation lies
\* in 0..255 converts to it on every build.  Outside that range, and for
\* NaN, the C conversion is undefined: a build either wraps modulo 256
\* (conversion through a wider integer, x86) or saturates (ARM), and turns
\* NaN into the byte b.nan.
Builds ==
    { [oor |-> "wrap", nan |-> 0], [oor |-> "saturate", nan |-> 0],
      [oor |-> "saturate", nan |-> 255] }

AsTypeUint8(a, b) ==
    IF IsNaN(a) THEN b.nan
    ELSE IF IsInf(a)
         THEN (IF b.oor = "wrap" THEN 0 ELSE IF a[2] > 0 THEN 255 ELSE 0)
    ELSE LET t == Trunc(a)
         IN  IF t >= 0 /\ t <= 255 THEN t
             ELSE IF b.oor = "wrap" THEN t % 256
             ELSE IF t < 0 THEN 0 ELSE 255

\* ------------------------------------------------------------ RasterEncoder
\* An image is a sequence of rows, a row a sequence of pixels, a pixel a
\* sequence of channel values (one for a 2D buffer, three for H x W x 3).
\* np.clip(image, 0.0, 1.0) on every element.
ClipImage(image) ==
    [v \in 1..Len(image) |->
        [u \in 1..Len(image[v]) |->
            [c \in 1..Len(image[v][u]) |-> NpClip(image[v][u][c], Z(0), Z(1))]]]

\* (image * 255).astype(np.uint8) on every element.
ScaleImage(image, b) ==
    [v \in 1..Len(image) |->
        [u \in 1..Len(image[v]) |->
            [c \in 1..Len(image[v][u]) |->
                AsTypeUint8(FMul(image[v][u][c], Z(255)), b)]]]

RoundImage(image, b) ==
    [v \in 1..Len(image) |->
        [u \in 1..Len(image[v]) |->
            [c \in 1..Len(image[v][u]) |->
                AsTypeUint8(FSub(FMul(image[v][u][c], Z(255)), Q(-1, 2)), b)]]]

to_8bit_png_round(image, b) == RoundImage(ClipImage(image), b)

\* _to_8bit_png: clip to [0,1], scale by 255, astype(uint8).
to_8bit_png(image, b) == ScaleImage(ClipImage(image), b)

\* A 2D buffer seen as an image of one-channel pixels.
Gray(buf) == [v \in 1..Len(buf) |-> [u \in 1..Len(buf[v]) |-> <<buf[v][u]>>]]

to_depth_png_bytes(f, b) == to_8bit_png(ClipImage(Gray(f.depth)), b)

to_normal_png_bytes(f, b) == to_8bit_png(ClipImage(f.normal), b)

to_color_png_bytes(f, b) == to_8bit_png(ClipImage(f.color), b)

\* -------------------------------------------------- CoordinateReconstructor
Height(f) == Len(f.depth)
Width(f) == Len(f.depth[1])

\* float(v): succeeds on a number, raises TypeError on None and ValueError or
\* TypeError on a value that is no number (both are caught by the caller).
FloatRaises(v) == v[1] \in {"none", "bad", "missing"}

\* Lines 54-72 of to_ply_bytes: fx, fy, cx, cy start as None and are
\* assigned in that order inside one try block; the first float() that raises
\* leaves the later ones None (the earlier ones keep the camera's value).
FetchIntrinsics(camera) ==
    LET i == camera.camera_intrinsics
        none4 == <<PyNone, PyNone, PyNone, PyNone>>
    IN  IF i.state # "object" THEN none4
        ELSE IF \E k \in {"fx", "fy", "cx", "cy"} : i[k] = PyMissing THEN none4
        ELSE IF FloatRaises(i.fx) THEN none4
        ELSE IF FloatRaises(i.fy) THEN <<i.fx, PyNone, PyNone, PyNone>>
        ELSE IF FloatRaises(i.cx) THEN <<i.fx, i.fy, PyNone, PyNone>>
        ELSE IF FloatRaises(i.cy) THEN <<i.fx, i.fy, i.cx, PyNone>>
        ELSE <<i.fx, i.fy, i.cx, i.cy>>

DefaultIntrinsics_PixelCentre(width, height) ==
    <<Z(Max(width, height)), Z(Max(width, height)), Q(width - 1, 2), Q(height - 1, 2)>>

\* Lines 76-78: fx = fy = max(width, height); cx = width / 2.0; cy = height / 2.0
DefaultIntrinsics(width, height) ==
    <<Z(Max(width, height)), Z(Max(width, height)), Q(width, 2), Q(height, 2)>>

ChooseIntrinsics_PerField(fetched, width, height) ==
    LET d == DefaultIntrinsics(width, height)
    IN  [k \in 1..4 |-> IF fetched[k] = PyNone THEN d[k] ELSE fetched[k]]

\* Lines 74-78: one test over the four values, then all four defaults.
ChooseIntrinsics(fetched, width, height) ==
    IF \E k \in 1..4 : fetched[k] = PyNone
    THEN DefaultIntrinsics(width, height)
    ELSE fetched

Intrinsics(f) == ChooseIntrinsics(FetchIntrinsics(f.camera), Width(f), Height(f))

\* Line 90: the pixels the loop skips.
SkipDepth_NoFiniteTest(depth_val) == FLeq(depth_val, Z(0))

SkipDepth(depth_val) == FLeq(depth_val, Z(0)) \/ ~IsFinite(depth_val)

Unproject_Swapped(x, y, depth_val, k) ==
    <<FDiv(FMul(FSub(Z(y), k[3]), depth_val), k[1]),
      FDiv(FMul(FSub(Z(x), k[4]), depth_val), k[2]),
      depth_val>>

\* Lines 95-97: x is the column and y the row of the pixel (0-based),
\* k = <<fx, fy, cx, cy>>.
Unproject(x, y, depth_val, k) ==
    <<FDiv(FMul(FSub(Z(x), k[3]), depth_val), k[1]),
      FDiv(FMul(FSub(Z(y), k[4]), depth_val), k[2]),
      depth_val>>

\* ---------------------------------------------------------- PointCloudEncoder
\* plyfile: PlyElement.describe(data, "vertex") takes the property list from
\* the dtype and the count from len(data); PlyData.write emits one row per
\* record, the values in dtype order.
PlyWrite(vertex_data, dtype, text) ==
    [format |-> IF text THEN "ascii" ELSE "binary_little_endian",
     count  |-> Len(vertex_data),
     props  |-> dtype,
     rows   |-> [i \in 1..Len(vertex_data) |->
                    [j \in 1..Len(dtype) |-> vertex_data[i][dtype[j]]]]]

\* Lines 113-146: the structured dtype of both branches.
FrameDtype == <<"x", "y", "z", "nx", "ny", "nz", "red", "green", "blue">>

\* Line 102: (color * 255).astype(np.uint8), no clip.
ColorByte(c, b) == AsTypeUint8(FMul(c, Z(255)), b)

\* Lines 85-107: one pass over the pixels in row-major order, k the 0-based
\* pixel number; acc is the list of vertices appended so far.
RECURSIVE PlyLoop(_, _, _, _, _)
PlyLoop(f, intr, b, k, acc) ==
    IF k >= Height(f) * Width(f) THEN acc
    ELSE LET y == k \div Width(f)
             x == k % Width(f)
             depth_val == f.depth[y + 1][x + 1]
         IN  IF SkipDepth(depth_val) THEN PlyLoop(f, intr, b, k + 1, acc)
             ELSE LET p == Unproject(x, y, depth_val, intr)
                      c == f.color[y + 1][x + 1]
                      n == f.normal[y + 1][x + 1]
                      vtx == [x |-> p[1], y |-> p[2], z |-> p[3],
                              nx |-> n[1], ny |-> n[2], nz |-> n[3],
                              red   |-> ColorByte(c[1], b),
                              green |-> ColorByte(c[2], b),
                              blue  |-> ColorByte(c[3], b)]
                  IN  PlyLoop(f, intr, b, k + 1, Append(acc, vtx))

to_ply_bytes_CountPixels(f, b) ==
    [PlyWrite(PlyLoop(f, Intrinsics(f), b, 0, <<>>), FrameDtype, TRUE)
        EXCEPT !.count = Height(f) * Width(f)]

\* Frame.to_ply_bytes
to_ply_bytes(f, b) ==
    PlyWrite(PlyLoop(f, Intrinsics(f), b, 0, <<>>), FrameDtype, TRUE)

\* ------------------------------------------- Blender._convert_exr_to_ply
\* Lines 216-235: the dtype with a normal artifact and without one.
BlenderDtype(hasNormals) ==
    IF hasNormals
    THEN <<"x", "y", "z", "red", "green", "blue", "nx", "ny", "nz">>
    ELSE <<"x", "y", "z", "red", "green", "blue">>

\* np.array(list_of_tuples, dtype): the tuple's j-th value becomes the
\* field named by the dtype's j-th entry.
FromTuple(t, dtype) ==
    [n \in {dtype[j] : j \in 1..Len(dtype)} |->
        t[CHOOSE j \in 1..Len(dtype) : dtype[j] = n]]

\* Line 177: valid_mask
BlenderValid(d) == FLess(Z(0), d) /\ FLess(d, Z(1000)) /\ IsFinite(d)

\* Lines 169-170: fx = fy = width * 0.7; cx, cy = width / 2, height / 2
BlenderIntrinsics(width, height) ==
    <<Q(7 * width, 10), Q(7 * width, 10), Q(width, 2), Q(height, 2)>>

\* Line 192: np.clip(colors_rgb * 255, 0, 255).astype(np.uint8)
BlenderColorByte(c, b) == AsTypeUint8(NpClip(FMul(c, Z(255)), Z(0), Z(255)), b)

\* Lines 173-212: the masked, flattened arrays, row-major.
RECURSIVE BlenderLoop(_, _, _, _, _, _, _)
BlenderLoop(color, depth, normals, hasNormals, b, k, acc) ==
    LET height == Len(color)
        width == Len(color[1])
    IN  IF k >= height * width THEN acc
        ELSE LET v == k \div width
                 u == k % width
                 d == depth[v + 1][u + 1]
             IN  IF ~BlenderValid(d)
                 THEN BlenderLoop(color, depth, normals, hasNormals, b, k + 1, acc)
                 ELSE LET p == Unproject(u, v, d, BlenderIntrinsics(width, height))
                          c == color[v + 1][u + 1]
                          base == <<p[1], p[2], p[3],
                                    BlenderColorByte(c[1], b),
                                    BlenderColorByte(c[2], b),
                                    BlenderColorByte(c[3], b)>>
                          vertex == IF hasNormals
                                    THEN base \o normals[v + 1][u + 1]
                                    ELSE base
                      IN  BlenderLoop(color, depth, normals, hasNormals, b, k + 1,
                              Append(acc, FromTuple(vertex, BlenderDtype(hasNormals))))

\* Blender._convert_exr_to_ply on decoded color, depth and normal channels;
\* hasNormals is FALSE when the normal artifact is missing or has neither
\* X,Y,Z nor R,G,B channels (normals stays None).
convert_exr_to_ply(color, depth, normals, hasNormals, b) ==
    PlyWrite(BlenderLoop(color, depth, normals, hasNormals, b, 0, <<>>),
             BlenderDtype(hasNormals), FALSE)

\* --------------------------------------------------- ChannelBufferDecoder
\* An artifact is one EXR file of the pass: [exists, channels, height,
\* width], `channels` being header()["channels"] in the order the header
\* lists its names, height and width those of the file's dataWindow.
Declares(channels, name) == \E i \in 1..Len(channels) : channels[i] = name

\* The loop over the common depth channel names, and its fallback.
DepthChannelNames == <<"Z", "Depth", "R", "G", "B", "A">>

SelectDepthChannel_FirstDeclared(available_channels) ==
    IF Len(available_channels) > 0 THEN available_channels[1] ELSE "R"

SelectDepthChannel(available_channels) ==
    LET found == {i \in 1..Len(DepthChannelNames) :
                    Declares(available_channels, DepthChannelNames[i])}
    IN  IF found # {}
        THEN DepthChannelNames[CHOOSE i \in found : \A j \in found : i <= j]
        ELSE IF Len(available_channels) > 0 THEN available_channels[1] ELSE "R"

\* The channels the normals are read from; <<>> when `normals` stays None.
SelectNormalChannels(normal) ==
    IF ~normal.exists THEN <<>>
    ELSE IF \A ch \in {"X", "Y", "Z"} : Declares(normal.channels, ch)
         THEN <<"X", "Y", "Z">>
    ELSE IF \A ch \in {"R", "G", "B"} : Declares(normal.channels, ch)
         THEN <<"R", "G", "B">>
    ELSE <<>>

\* np.frombuffer(file.channel(name)): the height * width values the file
\* holds for a channel, each channel with values of its own.
ChannelNames == <<"V", "B", "Depth", "G", "Z", "R", "A", "W", "X", "Y">>

ChannelData(a, name, vals) ==
    LET idx == CHOOSE i \in 1..Len(ChannelNames) : ChannelNames[i] = name
    IN  [i \in 1..(a.height * a.width) |-> vals[((idx + i) % Len(vals)) + 1]]

\* ndarray.reshape((height, width)) of a flat array of height * width values.
Reshape(data, height, width) ==
    [v \in 1..height |-> [u \in 1..width |-> data[(v - 1) * width + u]]]

\* np.stack([c1, c2, c3], axis=-1)
Stack(c1, c2, c3) ==
    [v \in 1..Len(c1) |-> [u \in 1..Len(c1[v]) |-> <<c1[v][u], c2[v][u], c3[v][u]>>]]

EmptyPly == [format |-> "", count |-> 0, props |-> <<>>, rows |-> <<>>]

NoDec == [op |-> "none", status |-> "none", error |-> "none", depth_channel |-> "none",
          normal_channels |-> <<>>, png |-> <<>>, ply |-> EmptyPly]

\* The color artifact as Blender._convert_exr_to_png and _convert_exr_to_ply
\* read it: InputFile(path), channels("RGB"), reshape with its own dataWindow.
ColorError(color) ==
    IF ~color.exists THEN "FileError"
    ELSE IF \E ch \in {"R", "G", "B"} : ~Declares(color.channels, ch) THEN "ChannelError"
    ELSE "none"

ReadRGB(a, vals) ==
    Stack(Reshape(ChannelData(a, "R", vals), a.height, a.width),
          Reshape(ChannelData(a, "G", vals), a.height, a.width),
          Reshape(ChannelData(a, "B", vals), a.height, a.width))

\* Blender._convert_exr_to_png of the color artifact.
DecodePng(color, vals, b) ==
    IF ColorError(color) # "none"
    THEN [NoDec EXCEPT !.op = "png", !.status = "error", !.error = ColorError(color)]
    ELSE [NoDec EXCEPT !.op = "png", !.status = "ok",
                       !.png = ScaleImage(ClipImage(ReadRGB(color, vals)), b)]

\* Blender._convert_exr_to_ply of the three artifacts: width and height are
\* those of the color artifact, and every other channel is reshaped with
\* them; reshape raises ValueError when the number of values differs.
DecodePly(color, depth, normal, cvals, dvals, b) ==
    LET width == color.width
        height == color.height
        Fits(a) == a.height * a.width = height * width
        depth_channel == SelectDepthChannel(depth.channels)
        normal_channels == SelectNormalChannels(normal)
        hasNormals == normal_channels # <<>>
        Fail(e, ch) == [NoDec EXCEPT !.op = "ply", !.status = "error", !.error = e,
                                     !.depth_channel = ch]
        Plane(a, name, vals) ==
            Reshape(ChannelData([a EXCEPT !.height = height, !.width = width], name, vals),
                    height, width)
        rgb == ReadRGB(color, cvals)
        normals == IF hasNormals
                   THEN Stack(Plane(normal, normal_channels[1], cvals),
                              Plane(normal, normal_channels[2], cvals),
                              Plane(normal, normal_channels[3], cvals))
                   ELSE rgb
    IN  IF ColorError(color) # "none" THEN Fail(ColorError(color), "none")
        ELSE IF ~depth.exists THEN Fail("FileError", "none")
        ELSE IF ~Declares(depth.channels, depth_channel)
             THEN Fail("ChannelError", depth_channel)
        ELSE IF ~Fits(depth) THEN Fail("ValueError", depth_channel)
        ELSE IF hasNormals /\ ~Fits(normal) THEN Fail("ValueError", depth_channel)
        ELSE [NoDec EXCEPT !.op = "ply", !.status = "ok",
                           !.depth_channel = depth_channel,
                           !.normal_channels = normal_channels,
                           !.ply = convert_exr_to_ply(rgb, Plane(depth, depth_channel, dvals),
                                                      normals, hasNormals, b)]

\* ---------------------------------------------------------------- state
VARIABLES
    frame,       \* the Frame: [camera, depth, normal, color]
    build,       \* the platform's float -> uint8 conversion (see Builds)
    out,         \* the result of the last encoder call on the frame
    ply_log,     \* history: the first to_ply_bytes result and the calls since
    pc,          \* render invocation -> its position in the render call
    kind,        \* render invocation -> "render_png", "render_ply", "execute"
    files,       \* the temporary paths on disk: <<path, the invocation that made it>>
    input_path,  \* render invocation -> its input descriptor file, or <<>>
    output_path, \* render invocation -> its output directory, or <<>>
    returncode,  \* render invocation -> {} (no exit yet) or {exit code}
    pending,     \* render invocation -> the exception in flight, or "none"
    decoded,     \* render invocation -> the artifacts were read
    outcome,     \* render invocation -> what the caller got
    starts,      \* render invocation -> how often it started the render process
    exr,         \* the artifacts of one render pass: [color, depth, normal]
    dec,         \* what converting the artifacts of the pass gave
    entities,    \* EntityModel._entities: the stored entities in insertion order
    generated,   \* the ids uuid4 has given out
    pydantic,    \* how the installed pydantic treats `X | None` without default
    resp,        \* what the last registry call or request gave
    latest,      \* history: id -> the object last added under it and not deleted
    scenes,      \* SceneModel._scenes: the registered scenes in insertion order
    descriptor,  \* per invocation: the camera JSON it wrote into its input file
    rendered,    \* per invocation: the camera JSON its render process read
    disk         \* the blend files on disk: <<path, bytes>>

frameVars == <<frame, build, out, ply_log>>
renderVars == <<pc, kind, files, input_path, output_path, returncode, pending,
                decoded, outcome, starts, descriptor, rendered>>
decodeVars == <<exr, dec>>
registryVars == <<entities, generated, pydantic, resp, latest>>
sceneVars == <<scenes, disk>>
nonFrameVars == <<renderVars, decodeVars, registryVars, sceneVars>>
nonRenderVars == <<frameVars, decodeVars, registryVars, sceneVars>>
nonDecodeVars == <<frameVars, renderVars, registryVars, sceneVars>>
nonRegistryVars == <<frameVars, renderVars, decodeVars, sceneVars>>
nonSceneVars == <<frameVars, renderVars, decodeVars, entities, latest>>
vars == <<frame, build, out, ply_log, pc, kind, files, input_path, output_path,
          returncode, pending, decoded, outcome, starts, exr, dec,
          entities, generated, pydantic, resp, latest, scenes, disk,
          descriptor, rendered>>

\* ---------------------------------------------------------- frame inputs
DepthVals == <<Q(1, 10), Q(-1, 2), PInf, NaN, Z(0), NInf, Z(1), Z(5), Z(2000)>>
ColorVals == <<Z(1), Q(1, 2), Z(0), Q(3, 2), Q(-1, 2), Q(1, 4), Q(4, 5)>>
NormalVals == << <<Z(0), Z(0), Z(1)>>, <<Q(1, 2), Q(1, 2), Q(7, 10)>>,
                 <<Z(1), Z(0), Z(0)>>, <<Z(0), Z(-1), Z(0)>> >>

Pick(vals, i) == vals[(i % Len(vals)) + 1]

\* Buffers of h rows and w columns whose values walk through a value list
\* from a starting index (stride 0 gives a constant buffer).
DepthBuf(h, w, seed, stride) ==
    [v \in 1..h |-> [u \in 1..w |->
        Pick(DepthVals, seed + stride * ((v - 1) * w + (u - 1)))]]

ColorBuf(h, w, seed) ==
    [v \in 1..h |-> [u \in 1..w |->
        [c \in 1..3 |-> Pick(ColorVals, seed + 3 * ((v - 1) * w + (u - 1)) + (c - 1))]]]

NormalBuf(h, w, seed) ==
    [v \in 1..h |-> [u \in 1..w |-> Pick(NormalVals, seed + (v - 1) * w + (u - 1))]]

IntrObject(fx, fy, cx, cy) ==
    [state |-> "object", fx |-> fx, fy |-> fy, cx |-> cx, cy |-> cy]

\* camera_intrinsics = None, and a camera without the attribute.
IntrNull == [IntrObject(PyMissing, PyMissing, PyMissing, PyMissing) EXCEPT !.state = "null"]
IntrAbsent == [IntrObject(PyMissing, PyMissing, PyMissing, PyMissing) EXCEPT !.state = "absent"]

FullIntrinsics ==
    { IntrObject(Z(100), Z(100), Q(1, 2), Q(1, 2)),
      IntrObject(Z(100), Z(100), Z(1), Z(1)),
      IntrObject(Z(2), Z(3), Z(1), Z(0)) }

\* Intrinsics objects with an attribute that is missing, None or no number.
PartialIntrinsics ==
    { [IntrObject(Z(2), Z(3), Z(1), Z(0)) EXCEPT ![k] = d] :
        k \in {"fx", "fy", "cx", "cy"}, d \in {PyNone, PyBad, PyMissing} }
    \cup { IntrObject(PyNone, PyBad, Z(1), Z(0)), IntrObject(Z(2), Z(3), PyBad, PyNone),
           IntrObject(PyNone, PyNone, PyNone, PyNone) }

ZeroPose == <<Z(0), Z(0), Z(5), Z(0), Z(0), Z(0)>>

Camera(intr) == [id |-> "test_camera", pose |-> ZeroPose, camera_intrinsics |-> intr]

\* Camera poses: no rotation, and the rotated poses of the render tests.
Poses == << ZeroPose,
            <<Z(2), Z(2), Z(5), Q(1, 5), Q(3, 10), Q(1, 10)>>,
            <<Z(5), Z(0), Z(0), Z(0), Q(1571, 1000), Z(0)>> >>

MkFrame(h, w, intr, dseed, stride, cseed) ==
    [camera |-> [Camera(intr) EXCEPT !.pose = Pick(Poses, cseed)],
     depth  |-> DepthBuf(h, w, dseed, stride),
     normal |-> NormalBuf(h, w, cseed),
     color  |-> ColorBuf(h, w, cseed)]

Dims == 1..MaxDim

\* Three families: walking depth and color patterns under a camera without
\* intrinsics; constant depth buffers under a camera with and without
\* intrinsics; every camera over buffers whose pixels are all valid.
Frames ==
    { MkFrame(h, w, IntrNull, dseed, 1, cseed) :
        h \in Dims, w \in Dims,
        dseed \in 0..(Len(DepthVals) - 1), cseed \in 0..(Len(ColorVals) - 1) }
    \cup
    { MkFrame(h, w, intr, dseed, 0, 0) :
        h \in Dims, w \in Dims,
        intr \in {IntrNull, IntrObject(Z(100), Z(100), Q(1, 2), Q(1, 2))},
        dseed \in 0..(Len(DepthVals) - 1) }
    \cup
    { MkFrame(h, w, intr, dseed, 0, 0) :
        h \in Dims, w \in Dims,
        intr \in {IntrNull, IntrAbsent} \cup FullIntrinsics \cup PartialIntrinsics,
        dseed \in {6, 7} }

NoOut == [op |-> "none", png |-> <<>>, ply |-> EmptyPly]

\* An entity object: its id, its class, its pose (<<>> for a class without
\* pose), its camera_intrinsics (None for a camera, no such attribute for
\* another class) and `obj`, the identity of the Python object.
Entity(id, type, pose, obj) ==
    [id |-> id, type |-> type, pose |-> pose, obj |-> obj,
     camera_intrinsics |-> IF type = "Camera" THEN IntrNull ELSE IntrAbsent]

\* dict operations on the insertion-ordered _entities.
DictHas(d, k) == \E i \in 1..Len(d) : d[i].id = k
DictGet(d, k) == d[CHOOSE i \in 1..Len(d) : d[i].id = k]
DictDel(d, k) == SelectSeq(d, LAMBDA e : e.id # k)

\* camera.model_dump_json(): the fields of the object, by value.
Descriptor(camera) ==
    [id |-> camera.id, pose |-> camera.pose, camera_intrinsics |-> camera.camera_intrinsics]

Renders == {"r1", "r2"}

RenderIdle ==
    /\ pc = [r \in Renders |-> "idle"]
    /\ kind \in [Renders -> {"render_png", "render_ply", "execute"}]
    /\ files = {}
    /\ input_path = [r \in Renders |-> <<>>]
    /\ output_path = [r \in Renders |-> <<>>]
    /\ returncode = [r \in Renders |-> {}]
    /\ pending = [r \in Renders |-> "none"]
    /\ decoded = [r \in Renders |-> FALSE]
    /\ outcome = [r \in Renders |-> "running"]
    /\ starts = [r \in Renders |-> 0]
    /\ descriptor = [r \in Renders |-> Descriptor(Entity("", "Entity", <<>>, ""))]
    /\ rendered = [r \in Renders |-> Descriptor(Entity("", "Entity", <<>>, ""))]

\* The artifacts of a pass that nothing has converted yet.
Artifact(exists, channels, height, width) ==
    [exists |-> exists, channels |-> channels, height |-> height, width |-> width]

SamplePass ==
    [color  |-> Artifact(TRUE, <<"B", "G", "R">>, 2, 2),
     depth  |-> Artifact(TRUE, <<"Z">>, 2, 2),
     normal |-> Artifact(TRUE, <<"X", "Y", "Z">>, 2, 2)]

DecodeIdle == exr = SamplePass /\ dec = NoDec

\* The registry before any call: the ids of the entities handed in and the
\* ids uuid4 can give out.
Ids == {"a", "b"}
Uuids == {"u1"}

Resp(op, arg, status, value) == [op |-> op, arg |-> arg, status |-> status, value |-> value]

RegistryIdle ==
    /\ entities = <<>>
    /\ generated = {}
    /\ pydantic = "v2"
    /\ resp = Resp("none", "", "none", <<>>)
    /\ latest = [i \in Ids \cup Uuids |-> "none"]
    /\ scenes = <<>>
    /\ disk = {}

\* ---------------------------------------------------- the frame encoders
\* History of the encoder calls on the frame, kept only when switched on:
\* the bytes of the first to_ply_bytes call, the number of to_ply_bytes
\* calls (counted up to two), and whether another encoder ran after the
\* first to_ply_bytes call.
NoLog == [on |-> FALSE, first |-> EmptyPly, calls |-> 0, between |-> FALSE]

LogCall(log, op, ply) ==
    IF ~log.on THEN log
    ELSE IF op = "to_ply_bytes"
         THEN [log EXCEPT !.first = IF log.calls = 0 THEN ply ELSE @,
                          !.calls = IF @ < 2 THEN @ + 1 ELSE @]
    ELSE [log EXCEPT !.between = (@ \/ log.calls > 0)]

Init ==
    /\ frame \in Frames
    /\ build \in Builds
    /\ out = NoOut
    /\ ply_log = NoLog
    /\ RenderIdle
    /\ kind = [r \in Renders |-> "render_png"]
    /\ DecodeIdle
    /\ RegistryIdle

ToDepthPngBytes ==
    /\ out' = [op |-> "to_depth_png_bytes", png |-> to_depth_png_bytes(frame, build),
               ply |-> EmptyPly]
    /\ ply_log' = LogCall(ply_log, out'.op, out'.ply)
    /\ UNCHANGED <<frame, build>>
    /\ UNCHANGED nonFrameVars

ToNormalPngBytes ==
    /\ out' = [op |-> "to_normal_png_bytes", png |-> to_normal_png_bytes(frame, build),
               ply |-> EmptyPly]
    /\ ply_log' = LogCall(ply_log, out'.op, out'.ply)
    /\ UNCHANGED <<frame, build>>
    /\ UNCHANGED nonFrameVars

\* np.clip(image, 0, 1, out=image) would clip the frame's buffer in place.
ToColorPngBytes_InPlace ==
    /\ out' = [op |-> "to_color_png_bytes", png |-> to_color_png_bytes(frame, build),
               ply |-> EmptyPly]
    /\ ply_log' = LogCall(ply_log, out'.op, out'.ply)
    /\ frame' = [frame EXCEPT !.color = ClipImage(frame.color)]
    /\ UNCHANGED build
    /\ UNCHANGED nonFrameVars

ToColorPngBytes ==
    /\ out' = [op |-> "to_color_png_bytes", png |-> to_color_png_bytes(frame, build),
               ply |-> EmptyPly]
    /\ ply_log' = LogCall(ply_log, out'.op, out'.ply)
    /\ UNCHANGED <<frame, build>>
    /\ UNCHANGED nonFrameVars

ToPlyBytes ==
    /\ out' = [op |-> "to_ply_bytes", png |-> <<>>, ply |-> to_ply_bytes(frame, build)]
    /\ ply_log' = LogCall(ply_log, out'.op, out'.ply)
    /\ UNCHANGED <<frame, build>>
    /\ UNCHANGED nonFrameVars

\* Blender.render_ply's conversion of the pass whose artifacts hold the
\* frame's buffers, with and without a usable normal artifact.
ConvertExrToPly ==
    \E hasNormals \in BOOLEAN :
        /\ out' = [op |-> IF hasNormals THEN "convert_exr_to_ply"
                          ELSE "convert_exr_to_ply_no_normals",
                   png |-> <<>>,
                   ply |-> convert_exr_to_ply(frame.color, frame.depth, frame.normal,
                                              hasNormals, build)]
        /\ ply_log' = LogCall(ply_log, out'.op, out'.ply)
        /\ UNCHANGED <<frame, build>>
    /\ UNCHANGED nonFrameVars

Next ==
    \/ ToDepthPngBytes
    \/ ToNormalPngBytes
    \/ ToColorPngBytes
    \/ ToPlyBytes
    \/ ConvertExrToPly

Spec == Init /\ [][Next]_vars

\* The same encoders on small frames, with the history of calls kept.
RepeatFrames == {f \in Frames : Height(f) * Width(f) <= 2}

InitRepeat ==
    /\ frame \in RepeatFrames
    /\ build \in Builds
    /\ out = NoOut
    /\ ply_log = [NoLog EXCEPT !.on = TRUE]
    /\ RenderIdle
    /\ kind = [r \in Renders |-> "render_png"]
    /\ DecodeIdle
    /\ RegistryIdle

SpecRepeat == InitRepeat /\ [][Next]_vars

\* ------------------------------------------------- the render lifecycle
\* Blender._render_frame (under render_png and render_ply) and
\* RenderFrameScript.execute share one shape: write the input descriptor,
\* create the output directory, then inside try: run the process and decode
\* its artifacts, and in finally: os.remove(input_path) followed by
\* shutil.rmtree(output_path).  For execute the two process steps stand for
\* `await self._blender.run(...)`.
ExitCodes == {0, 1}

\* tempfile draws a random name and creates it exclusively: the new path
\* is any path of the temporary directory that does not exist yet.
TmpNames == {"tmp1", "tmp2"}
InPath(n) == <<n, "json">>
OutPath(n) == <<n, "dir">>
Paths(fs) == {f[1] : f \in fs}

End(r, what) ==
    /\ pc' = [pc EXCEPT ![r] = "ended"]
    /\ outcome' = [outcome EXCEPT ![r] = what]

\* The camera a render is asked for: an entity of the registry, as the
\* routes pass it, or a camera object of the caller's own.
RenderCameras ==
    {entities[i] : i \in 1..Len(entities)}
        \cup {Entity("test_camera", "Camera", ZeroPose, "test_camera")}

ReadDescriptor_LiveCamera(r) ==
    IF DictHas(entities, descriptor[r].id)
    THEN Descriptor(DictGet(entities, descriptor[r].id))
    ELSE descriptor[r]

\* The render process reads the file at the path it was given: the JSON
\* its creator wrote there.
ReadDescriptor(r) ==
    descriptor[(CHOOSE f \in files : f[1] = input_path[r])[2]]

\* _write_tmp_state: NamedTemporaryFile(delete=False) creates the file (or
\* raises and creates nothing), then the descriptor is written into it; the
\* write of the few bytes of camera.model_dump_json() is taken to succeed.
\* Runs before the try block.
WriteTmpState_AnyName(r) ==
    /\ pc[r] = "idle"
    /\ \/ \E n \in TmpNames, camera \in RenderCameras :
            /\ files' = {f \in files : f[1] # InPath(n)} \cup {<<InPath(n), r>>}
            /\ input_path' = [input_path EXCEPT ![r] = InPath(n)]
            /\ descriptor' = [descriptor EXCEPT ![r] = Descriptor(camera)]
            /\ pc' = [pc EXCEPT ![r] = "mkdir"]
            /\ UNCHANGED outcome
       \/ /\ End(r, "OSError")
          /\ UNCHANGED <<files, input_path, descriptor>>
    /\ UNCHANGED <<kind, output_path, returncode, pending, decoded, starts, rendered>>
    /\ UNCHANGED nonRenderVars

WriteTmpState(r) ==
    /\ pc[r] = "idle"
    /\ \/ \E n \in TmpNames, camera \in RenderCameras :
            /\ InPath(n) \notin Paths(files)
            /\ files' = files \cup {<<InPath(n), r>>}
            /\ input_path' = [input_path EXCEPT ![r] = InPath(n)]
            /\ descriptor' = [descriptor EXCEPT ![r] = Descriptor(camera)]
            /\ pc' = [pc EXCEPT ![r] = "mkdir"]
            /\ UNCHANGED outcome
       \/ /\ End(r, "OSError")
          /\ UNCHANGED <<files, input_path, descriptor>>
    /\ UNCHANGED <<kind, output_path, returncode, pending, decoded, starts, rendered>>
    /\ UNCHANGED nonRenderVars

\* tempfile.TemporaryDirectory(delete=False).name, still before the try block.
MakeOutputDir(r) ==
    /\ pc[r] = "mkdir"
    /\ \/ \E n \in TmpNames :
            /\ OutPath(n) \notin Paths(files)
            /\ files' = files \cup {<<OutPath(n), r>>}
            /\ output_path' = [output_path EXCEPT ![r] = OutPath(n)]
            /\ pc' = [pc EXCEPT ![r] = "spawn"]
            /\ UNCHANGED outcome
       \/ /\ End(r, "OSError")
          /\ UNCHANGED <<files, output_path>>
    /\ UNCHANGED <<kind, input_path, returncode, pending, decoded, starts, descriptor, rendered>>
    /\ UNCHANGED nonRenderVars

\* Leaving the try block with an exception: control goes to finally.
Raise(r, exc) ==
    /\ pending' = [pending EXCEPT ![r] = exc]
    /\ pc' = [pc EXCEPT ![r] = "remove_input"]

Spawn_NotAwaited(r) ==
    /\ pc[r] = "spawn"
    /\ \E res \in {"started", "FileNotFoundError", "CancelledError"} :
        IF res = "started"
        THEN /\ pc' = [pc EXCEPT ![r] = "decode"]
             /\ starts' = [starts EXCEPT ![r] = @ + 1]
             /\ UNCHANGED pending
        ELSE Raise(r, res) /\ UNCHANGED starts
    /\ UNCHANGED <<kind, files, input_path, output_path, returncode, decoded, outcome, descriptor, rendered>>
    /\ UNCHANGED nonRenderVars

\* await asyncio.create_subprocess_exec(...)
Spawn(r) ==
    /\ pc[r] = "spawn"
    /\ \E res \in {"started", "FileNotFoundError", "CancelledError"} :
        IF res = "started"
        THEN /\ pc' = [pc EXCEPT ![r] = "await"]
             /\ starts' = [starts EXCEPT ![r] = @ + 1]
             /\ UNCHANGED pending
        ELSE Raise(r, res) /\ UNCHANGED starts
    /\ UNCHANGED <<kind, files, input_path, output_path, returncode, decoded, outcome, descriptor, rendered>>
    /\ UNCHANGED nonRenderVars

\* await proc.communicate(), then the returncode test.
AwaitProcess_IgnoreExit(r) ==
    /\ pc[r] = "await"
    /\ \/ /\ Raise(r, "CancelledError")
          /\ UNCHANGED <<returncode, rendered>>
       \/ \E code \in ExitCodes :
            /\ returncode' = [returncode EXCEPT ![r] = {code}]
            /\ rendered' = [rendered EXCEPT ![r] = ReadDescriptor(r)]
            /\ pc' = [pc EXCEPT ![r] = "decode"]
            /\ UNCHANGED pending
    /\ UNCHANGED <<kind, files, input_path, output_path, decoded, outcome, starts, descriptor>>
    /\ UNCHANGED nonRenderVars

AwaitProcess(r) ==
    /\ pc[r] = "await"
    /\ \/ /\ Raise(r, "CancelledError")
          /\ UNCHANGED <<returncode, rendered>>
       \/ \E code \in ExitCodes :
            /\ returncode' = [returncode EXCEPT ![r] = {code}]
            /\ rendered' = [rendered EXCEPT ![r] = ReadDescriptor(r)]
            /\ IF code # 0
               THEN Raise(r, "RuntimeError")
               ELSE pc' = [pc EXCEPT ![r] = "decode"] /\ UNCHANGED pending
    /\ UNCHANGED <<kind, files, input_path, output_path, decoded, outcome, starts, descriptor>>
    /\ UNCHANGED nonRenderVars

\* What reading the artifacts can end in.  render_png and render_ply decode
\* or raise (a missing artifact, a missing channel).  execute builds its
\* Frame from convert_depth_exr_to_np, which reads the names height and
\* width that nothing defines, so it always raises.
DecodeResults(k) ==
    IF k = "execute" THEN {"NameError"} ELSE {"ok", "DecodeError"}

ReturnValue(k) ==
    IF k = "render_png" THEN "png_bytes"
    ELSE IF k = "render_ply" THEN "ply_bytes"
    ELSE "frame"

\* The body reached after a zero exit: the artifacts of the output
\* directory are read.
Decode(r) ==
    /\ pc[r] = "decode"
    /\ decoded' = [decoded EXCEPT ![r] = TRUE]
    /\ \E res \in DecodeResults(kind[r]) :
        Raise(r, IF res = "ok" THEN "none" ELSE res)
    /\ UNCHANGED <<kind, files, input_path, output_path, returncode, outcome, starts, descriptor, rendered>>
    /\ UNCHANGED nonRenderVars

\* finally: os.remove(input_path).  When it raises, rmtree is not reached
\* and its exception replaces the one in flight.
RemoveInput(r) ==
    /\ pc[r] = "remove_input"
    /\ \E ok \in BOOLEAN :
        IF ok
        THEN /\ files' = {f \in files : f[1] # input_path[r]}
             /\ pc' = [pc EXCEPT ![r] = "remove_output"]
             /\ UNCHANGED outcome
        ELSE /\ End(r, "OSError")
             /\ UNCHANGED files
    /\ UNCHANGED <<kind, input_path, output_path, returncode, pending, decoded, starts, descriptor, rendered>>
    /\ UNCHANGED nonRenderVars

\* finally: shutil.rmtree(output_path); then the exception in flight
\* propagates, or the decoded value is returned.
RemoveOutput(r) ==
    /\ pc[r] = "remove_output"
    /\ \E ok \in BOOLEAN :
        IF ok
        THEN /\ files' = {f \in files : f[1] # output_path[r]}
             /\ End(r, IF pending[r] = "none" THEN ReturnValue(kind[r]) ELSE pending[r])
        ELSE /\ End(r, "OSError")
             /\ UNCHANGED files
    /\ UNCHANGED <<kind, input_path, output_path, returncode, pending, decoded, starts, descriptor, rendered>>
    /\ UNCHANGED nonRenderVars

SampleFrame == MkFrame(2, 2, IntrNull, 0, 1, 0)

InitRender ==
    /\ frame = SampleFrame
    /\ build = [oor |-> "wrap", nan |-> 0]
    /\ out = NoOut
    /\ ply_log = NoLog
    /\ RenderIdle
    /\ DecodeIdle
    /\ RegistryIdle

NextRender ==
    \E r \in Renders :
        \/ WriteTmpState(r)
        \/ MakeOutputDir(r)
        \/ Spawn(r)
        \/ AwaitProcess(r)
        \/ Decode(r)
        \/ RemoveInput(r)
        \/ RemoveOutput(r)

SpecRender == InitRender /\ [][NextRender]_vars

\* ------------------------------------------------- decoding one pass
\* The artifacts a render pass leaves in its output directory, as
\* Blender.render_png and Blender.render_ply hand them to the converters.
DecodeDims == {1, 2}

ColorChannelLists == { <<"B", "G", "R">>, <<"A", "B", "G", "R">>, <<"G", "R">> }

DepthChannelLists ==
    { <<"Z">>, <<"Depth">>, <<"Depth", "Z">>, <<"R">>, <<"G">>, <<"A", "B">>,
      <<"A", "B", "G", "R">>, <<"A", "B", "G", "R", "Z">>, <<"A", "Depth">>,
      <<"V">>, <<"V", "W">>, <<"B", "V", "Z">>, <<>> }

NormalChannelLists ==
    { <<"X", "Y", "Z">>, <<"B", "G", "R">>, <<"B", "G", "R", "X", "Y", "Z">>,
      <<"X", "Y">>, <<"A">>, <<"B", "G", "R", "X">>, <<>> }

\* Passes whose artifacts all have the largest shape and declare every
\* combination of channels (or are missing), and passes with the usual
\* channels whose artifacts declare every combination of shapes.
Passes ==
    { [color  |-> Artifact(ce, cc, 2, 2),
       depth  |-> Artifact(de, dc, 2, 2),
       normal |-> Artifact(ne, nc, 2, 2)] :
        ce \in BOOLEAN, cc \in ColorChannelLists,
        de \in BOOLEAN, dc \in DepthChannelLists,
        ne \in BOOLEAN, nc \in NormalChannelLists }
    \cup
    { [color  |-> Artifact(TRUE, <<"B", "G", "R">>, ch, cw),
       depth  |-> Artifact(TRUE, <<"Z">>, dh, dw),
       normal |-> Artifact(TRUE, <<"X", "Y", "Z">>, nh, nw)] :
        ch \in DecodeDims, cw \in DecodeDims, dh \in DecodeDims, dw \in DecodeDims,
        nh \in DecodeDims, nw \in DecodeDims }

InitDecode ==
    /\ exr \in Passes
    /\ dec = NoDec
    /\ frame = SampleFrame
    /\ build = [oor |-> "wrap", nan |-> 0]
    /\ out = NoOut
    /\ ply_log = NoLog
    /\ RenderIdle
    /\ kind = [r \in Renders |-> "render_ply"]
    /\ RegistryIdle

\* render_png: _convert_exr_to_png(frame_color_0001.exr)
ConvertExrToPng ==
    /\ dec' = DecodePng(exr.color, ColorVals, build)
    /\ UNCHANGED exr
    /\ UNCHANGED nonDecodeVars

\* render_ply: _convert_exr_to_ply(color_path, depth_path, normal_path)
ConvertExrFilesToPly ==
    /\ dec' = DecodePly(exr.color, exr.depth, exr.normal, ColorVals, DepthVals, build)
    /\ UNCHANGED exr
    /\ UNCHANGED nonDecodeVars

NextDecode ==
    \/ ConvertExrToPng
    \/ ConvertExrFilesToPly

SpecDecode == InitDecode /\ [][NextDecode]_vars

\* ------------------------------------------------------- the registries
SixZeros == <<Z(0), Z(0), Z(0), Z(0), Z(0), Z(0)>>
PoseInputs == { <<Z(1), Z(2), Z(3), Q(1, 2), NaN, PInf>>, <<Z(1), Z(2)>>,
                <<Z(1), Z(2), Z(3), Z(4), Z(5), Z(6), Z(7)>>, <<>> }

validate_pose_AnyNumber(pose) ==
    /\ pose.kind = "list"
    /\ Len(pose.items) = 6
    /\ \A i \in 1..Len(pose.items) : pose.items[i][1] \in {"num", "nan", "inf", "int"}

\* Pose.validate_pose of a Python object (its kind and its items):
\* isinstance(pose, list), len(pose) == 6, every item an instance of float.
validate_pose(pose) ==
    /\ pose.kind = "list"
    /\ Len(pose.items) = 6
    /\ \A i \in 1..Len(pose.items) : pose.items[i][1] \in {"num", "nan", "inf"}

\* The entities handed to EntityModel.add_entity: two objects with the id
\* "a" (a plain entity and a camera), one camera with the id "b".
EntityInputs ==
    { Entity("a", "Entity", <<>>, "o1"), Entity("a", "Camera", ZeroPose, "o2"),
      Entity("b", "Camera", SixZeros, "o3") }

DictSet_KeepOld(d, e) == IF DictHas(d, e.id) THEN d ELSE Append(d, e)

DictSet(d, e) ==
    IF DictHas(d, e.id) THEN [i \in 1..Len(d) |-> IF d[i].id = e.id THEN e ELSE d[i]]
    ELSE Append(d, e)

InitRegistry ==
    /\ entities = <<>>
    /\ generated = {}
    /\ pydantic \in {"v1", "v2"}
    /\ resp = Resp("none", "", "none", <<>>)
    /\ latest = [i \in Ids \cup Uuids |-> "none"]
    /\ scenes = <<>>
    /\ disk = {}
    /\ frame = SampleFrame
    /\ build = [oor |-> "wrap", nan |-> 0]
    /\ out = NoOut
    /\ ply_log = NoLog
    /\ RenderIdle
    /\ kind = [r \in Renders |-> "render_png"]
    /\ DecodeIdle

\* EntityModel.add_entity
AddEntity(e) ==
    /\ entities' = DictSet(entities, e)
    /\ latest' = [latest EXCEPT ![e.id] = e.obj]
    /\ resp' = Resp("add_entity", e.id, "ok", <<e>>)
    /\ UNCHANGED <<generated, pydantic>>
    /\ UNCHANGED nonRegistryVars

\* EntityModel.delete_entity
DeleteEntity(id) ==
    /\ entities' = IF DictHas(entities, id) THEN DictDel(entities, id) ELSE entities
    /\ latest' = [latest EXCEPT ![id] = "none"]
    /\ resp' = Resp("delete_entity", id, "ok", <<>>)
    /\ UNCHANGED <<generated, pydantic>>
    /\ UNCHANGED nonRegistryVars

\* EntityModel.get_entity: the entity, or None (no value).
GetEntity(id) ==
    /\ resp' = Resp("get_entity", id, "ok",
                    IF DictHas(entities, id) THEN <<DictGet(entities, id)>> ELSE <<>>)
    /\ UNCHANGED <<entities, generated, pydantic, latest>>
    /\ UNCHANGED nonRegistryVars

\* EntityModel.get_entities
GetEntities ==
    /\ resp' = Resp("get_entities", "", "ok", entities)
    /\ UNCHANGED <<entities, generated, pydantic, latest>>
    /\ UNCHANGED nonRegistryVars

\* CameraModel.create_camera(pose): Camera(id=str(uuid4()), pose=pose or
\* [0, 0, 0, 0, 0, 0]) is built without camera_intrinsics, a field declared
\* `CameraIntrinsics | None` without default.  pydantic 2 requires such a
\* field and raises ValidationError; pydantic 1 defaults it to None.  The
\* pose is validated as list[float]: any length passes.  `given` tells
\* whether a pose was passed at all.  The signature has no camera_intrinsics
\* parameter: passing one (intr.state # "absent") is a TypeError at the call.
CreateCamera(given, pose, intr) ==
    IF intr.state # "absent"
    THEN /\ resp' = Resp("create_camera", "", "TypeError", <<>>)
         /\ UNCHANGED <<entities, generated, pydantic, latest>>
         /\ UNCHANGED nonRegistryVars
    ELSE
    \E id \in Uuids \ generated :
        LET camera == Entity(id, "Camera",
                             IF given /\ Len(pose) > 0 THEN pose ELSE SixZeros, id)
        IN  /\ generated' = generated \cup {id}
            /\ IF pydantic = "v2"
               THEN /\ resp' = Resp("create_camera", id, "ValidationError", <<>>)
                    /\ UNCHANGED <<entities, latest>>
               ELSE /\ entities' = DictSet(entities, camera)
                    /\ latest' = [latest EXCEPT ![id] = id]
                    /\ resp' = Resp("create_camera", id, "ok", <<camera>>)
            /\ UNCHANGED pydantic
            /\ UNCHANGED nonRegistryVars

\* The camera_intrinsics arguments of create_camera calls: none, and the
\* object of the unit tests.
IntrinsicsInputs == {IntrAbsent, IntrObject(Z(1000), Z(1000), Z(960), Z(540))}

\* EntityModel.get_entities_by_type(Camera), as CameraModel.get_cameras calls it.
GetCameras ==
    /\ resp' = Resp("get_cameras", "", "ok", SelectSeq(entities, LAMBDA e : e.type = "Camera"))
    /\ UNCHANGED <<entities, generated, pydantic, latest>>
    /\ UNCHANGED nonRegistryVars

\* CameraModel.get_camera: None for no entity and for one that is no Camera.
GetCamera(id) ==
    /\ resp' = Resp("get_camera", id, "ok",
                    IF DictHas(entities, id) /\ DictGet(entities, id).type = "Camera"
                    THEN <<DictGet(entities, id)>> ELSE <<>>)
    /\ UNCHANGED <<entities, generated, pydantic, latest>>
    /\ UNCHANGED nonRegistryVars

\* CameraModel.delete_camera: EntityModel.delete_entity of the id.
DeleteCamera(id) ==
    /\ entities' = IF DictHas(entities, id) THEN DictDel(entities, id) ELSE entities
    /\ latest' = [latest EXCEPT ![id] = "none"]
    /\ resp' = Resp("delete_camera", id, "ok", <<>>)
    /\ UNCHANGED <<generated, pydantic>>
    /\ UNCHANGED nonRegistryVars

\* EntityIdRouter._set_entity_pose for a scene that exists: 404 for an
\* unknown entity, 400 for an entity without pose or an invalid pose,
\* else the entity object's pose is assigned.
SetEntityPose(id, pose) ==
    /\ IF ~DictHas(entities, id)
       THEN resp' = Resp("set_entity_pose", id, "404", <<>>) /\ UNCHANGED entities
       ELSE IF DictGet(entities, id).type # "Camera"
       THEN resp' = Resp("set_entity_pose", id, "400", <<>>) /\ UNCHANGED entities
       ELSE IF ~validate_pose([kind |-> "list", items |-> pose])
       THEN resp' = Resp("set_entity_pose", id, "400", <<>>) /\ UNCHANGED entities
       ELSE /\ entities' = DictSet(entities, [DictGet(entities, id) EXCEPT !.pose = pose])
            /\ resp' = Resp("set_entity_pose", id, "ok", <<>>)
    /\ UNCHANGED <<generated, pydantic, latest>>
    /\ UNCHANGED nonRegistryVars

NextRegistry ==
    \/ \E e \in EntityInputs : AddEntity(e)
    \/ \E id \in Ids \cup Uuids : DeleteEntity(id)
    \/ \E id \in Ids \cup Uuids : GetEntity(id)
    \/ GetEntities
    \/ \E given \in BOOLEAN, pose \in PoseInputs, intr \in IntrinsicsInputs :
            CreateCamera(given, pose, intr)
    \/ GetCameras
    \/ \E id \in Ids \cup Uuids : GetCamera(id)
    \/ \E id \in Ids \cup Uuids : DeleteCamera(id)
    \/ \E id \in Ids \cup Uuids, pose \in PoseInputs : SetEntityPose(id, pose)

SpecRegistry == InitRegistry /\ [][NextRegistry]_vars

\* ------------------------------------------------------------ the scenes
\* A Scene object: id, blend_path and its own EntityModel (`entities`, as
\* _entities above).  `uploaded` is history: the bytes create_scene was given.
Scene(id, blend_path, uploaded) ==
    [id |-> id, blend_path |-> blend_path, entities |-> <<>>, uploaded |-> uploaded]

\* str(uuid4()) and the name NamedTemporaryFile draws: random, never drawn twice.
SceneNames == {"s1", "s2"}
BlendPath(n) == <<n, "blend">>
BlendBytes == {"x", "y"}

\* The entities handed to the EntityModel of scene n: a plain entity and a
\* camera, objects of their own for every scene.
SceneEntityInputs(n) == {Entity("a", "Entity", <<>>, n), Entity("b", "Camera", SixZeros, n)}

\* The poses of the set-pose requests: one of 6 floats, one of 2.
ScenePoses == {p \in PoseInputs : Len(p) \in {2, 6}}

WithEntities_EveryScene(sid, d) ==
    [i \in 1..Len(scenes) |-> [scenes[i] EXCEPT !.entities = d]]

\* The scene a request names, with its entity registry replaced.
WithEntities(sid, d) ==
    DictSet(scenes, [DictGet(scenes, sid) EXCEPT !.entities = d])

InitScenes ==
    /\ scenes = <<>>
    /\ disk = {}
    /\ entities = <<>>
    /\ generated = {}
    /\ pydantic = "v2"
    /\ resp = Resp("none", "", "none", <<>>)
    /\ latest = [i \in Ids \cup Uuids |-> "none"]
    /\ frame = SampleFrame
    /\ build = [oor |-> "wrap", nan |-> 0]
    /\ out = NoOut
    /\ ply_log = NoLog
    /\ RenderIdle
    /\ kind = [r \in Renders |-> "render_png"]
    /\ DecodeIdle

\* SceneModel.create_scene
CreateScene(blend_bytes) ==
    \E n \in SceneNames \ generated :
        /\ generated' = generated \cup {n}
        /\ disk' = {f \in disk : f[1] # BlendPath(n)} \cup {<<BlendPath(n), blend_bytes>>}
        /\ scenes' = DictSet(scenes, Scene(n, BlendPath(n), blend_bytes))
        /\ resp' = Resp("create_scene", n, "ok", <<>>)
        /\ UNCHANGED pydantic
        /\ UNCHANGED nonSceneVars

DeleteScene_KeepFile(scene_id) ==
    /\ scenes' = IF DictHas(scenes, scene_id) THEN DictDel(scenes, scene_id) ELSE scenes
    /\ resp' = Resp("delete_scene", "", "ok", <<>>)
    /\ UNCHANGED <<disk, generated, pydantic>>
    /\ UNCHANGED nonSceneVars

\* SceneModel.delete_scene, which is all SceneIdRouter._delete_scene does.
DeleteScene(scene_id) ==
    /\ IF ~DictHas(scenes, scene_id)
       THEN UNCHANGED <<scenes, disk>>
       ELSE /\ disk' = {f \in disk : f[1] # DictGet(scenes, scene_id).blend_path}
            /\ scenes' = DictDel(scenes, scene_id)
    /\ resp' = Resp("delete_scene", "", "ok", <<>>)
    /\ UNCHANGED <<generated, pydantic>>
    /\ UNCHANGED nonSceneVars

\* The blend file of a scene is removed from outside the model.
UnlinkBlend(path) ==
    /\ \E f \in disk : f[1] = path
    /\ disk' = {f \in disk : f[1] # path}
    /\ resp' = Resp("unlink", "", "ok", <<>>)
    /\ UNCHANGED <<scenes, generated, pydantic>>
    /\ UNCHANGED nonSceneVars

\* scene.entity_model.add_entity(e) on a registered scene.
SceneAddEntity(scene_id, e) ==
    /\ DictHas(scenes, scene_id)
    /\ scenes' = WithEntities(scene_id, DictSet(DictGet(scenes, scene_id).entities, e))
    /\ resp' = Resp("add_entity", "", "ok", <<>>)
    /\ UNCHANGED <<disk, generated, pydantic>>
    /\ UNCHANGED nonSceneVars

\* EntityIdRouter._delete_entity: 404 for an unknown scene, else
\* delete_entity, which returns silently for an unknown entity.
RouteDeleteEntity(scene_id, entity_id) ==
    /\ IF ~DictHas(scenes, scene_id)
       THEN resp' = Resp("DELETE entity", "", "404", <<>>) /\ UNCHANGED scenes
       ELSE /\ scenes' = WithEntities(scene_id,
                             DictDel(DictGet(scenes, scene_id).entities, entity_id))
            /\ resp' = Resp("DELETE entity", "", "ok", <<>>)
    /\ UNCHANGED <<disk, generated, pydantic>>
    /\ UNCHANGED nonSceneVars

RouteSetEntityPose_Unvalidated(scene_id, entity_id, pose) ==
    /\ IF ~DictHas(scenes, scene_id)
       THEN resp' = Resp("PUT pose", "", "404", <<>>) /\ UNCHANGED scenes
       ELSE IF ~DictHas(DictGet(scenes, scene_id).entities, entity_id)
       THEN resp' = Resp("PUT pose", "", "404", <<>>) /\ UNCHANGED scenes
       ELSE IF DictGet(DictGet(scenes, scene_id).entities, entity_id).type # "Camera"
       THEN resp' = Resp("PUT pose", "", "400", <<>>) /\ UNCHANGED scenes
       ELSE /\ scenes' = WithEntities(scene_id,
                             DictSet(DictGet(scenes, scene_id).entities,
                                     [DictGet(DictGet(scenes, scene_id).entities, entity_id)
                                         EXCEPT !.pose = pose]))
            /\ resp' = Resp("PUT pose", "", "ok", <<>>)
    /\ UNCHANGED <<disk, generated, pydantic>>
    /\ UNCHANGED nonSceneVars

\* EntityIdRouter._set_entity_pose: 404 for an unknown scene or entity, 400
\* for an entity without pose or a pose validate_pose refuses, else the
\* pose of the entity object is assigned.
RouteSetEntityPose(scene_id, entity_id, pose) ==
    /\ IF ~DictHas(scenes, scene_id)
       THEN resp' = Resp("PUT pose", "", "404", <<>>) /\ UNCHANGED scenes
       ELSE IF ~DictHas(DictGet(scenes, scene_id).entities, entity_id)
       THEN resp' = Resp("PUT pose", "", "404", <<>>) /\ UNCHANGED scenes
       ELSE IF DictGet(DictGet(scenes, scene_id).entities, entity_id).type # "Camera"
       THEN resp' = Resp("PUT pose", "", "400", <<>>) /\ UNCHANGED scenes
       ELSE IF ~validate_pose([kind |-> "list", items |-> pose])
       THEN resp' = Resp("PUT pose", "", "400", <<>>) /\ UNCHANGED scenes
       ELSE /\ scenes' = WithEntities(scene_id,
                             DictSet(DictGet(scenes, scene_id).entities,
                                     [DictGet(DictGet(scenes, scene_id).entities, entity_id)
                                         EXCEPT !.pose = pose]))
            /\ resp' = Resp("PUT pose", "", "ok", <<>>)
    /\ UNCHANGED <<disk, generated, pydantic>>
    /\ UNCHANGED nonSceneVars

NextScenes ==
    \/ \E b \in BlendBytes : CreateScene(b)
    \/ \E n \in SceneNames : DeleteScene(n)
    \/ \E n \in SceneNames : UnlinkBlend(BlendPath(n))
    \/ \E n \in SceneNames : \E e \in SceneEntityInputs(n) : SceneAddEntity(n, e)
    \/ \E n \in SceneNames, id \in Ids \cup Uuids : RouteDeleteEntity(n, id)
    \/ \E n \in SceneNames, id \in Ids \cup Uuids, pose \in ScenePoses :
            RouteSetEntityPose(n, id, pose)

SpecScenes == InitScenes /\ [][NextScenes]_vars

\* ------------------------------------------- renders among requests
\* One render invocation of the routes, interleaved with the calls and
\* requests that change the registry it took its camera from.
NextSnapshot ==
    \/ WriteTmpState("r1")
    \/ MakeOutputDir("r1")
    \/ Spawn("r1")
    \/ AwaitProcess("r1")
    \/ Decode("r1")
    \/ RemoveInput("r1")
    \/ RemoveOutput("r1")
    \/ \E e \in EntityInputs : AddEntity(e)
    \/ \E id \in Ids : DeleteEntity(id)
    \/ \E id \in Ids, pose \in ScenePoses : SetEntityPose(id, pose)

SpecSnapshot == InitRegistry /\ [][NextSnapshot]_vars

\* ------------------------------------------------------------ validate_pose
\* The items poses are made of: floats (finite, NaN, infinite), the int 1,
\* a str and None.
PoseItems == {Q(-3, 2), NaN, PInf, <<"int", 1, 1>>, PyBad, PyNone}

MaxPoseLen == 7

\* The objects handed to validate_pose: lists, tuples and dicts of up to
\* MaxPoseLen items, one item followed by copies of another, and None.
PoseObjects ==
    { [kind |-> k, items |-> [i \in 1..n |-> IF i = 1 THEN a ELSE b]] :
        k \in {"list", "tuple", "dict"}, n \in 0..MaxPoseLen, a \in PoseItems, b \in PoseItems }
    \cup { [kind |-> "None", items |-> <<>>] }

\* One call of validate_pose.
ValidatePose(pose) ==
    /\ resp' = Resp("validate_pose", pose.kind,
                    IF validate_pose(pose) THEN "True" ELSE "False", pose.items)
    /\ UNCHANGED <<entities, generated, pydantic, latest>>
    /\ UNCHANGED nonRegistryVars

SpecPose == InitRegistry /\ [][\E pose \in PoseObjects : ValidatePose(pose)]_vars

\* =================================================================== claims
\* C1: whichever way a render invocation ends, its input descriptor file
\* and its output directory no longer exist once it has ended.
C1_TemporariesGoneAtEnd ==
    \A r \in Renders :
        pc[r] = "ended" => \A f \in files : f[2] # r

\* C2: a non-zero exit code makes the render call fail with RuntimeError,
\* without a result and without the artifacts ever being decoded.
C2_NonZeroExitRaisesRuntimeError ==
    \A r \in Renders :
        (pc[r] = "ended" /\ returncode[r] # {} /\ returncode[r] # {0}) =>
            (outcome[r] = "RuntimeError" /\ ~decoded[r])

\* Vocabulary of the claims about Frame.to_ply_bytes.  Pixels are numbered
\* row-major from 0; pixel k lies in row k \div width and column k % width.
PlyDone == out.op = "to_ply_bytes"
NPixels == Height(frame) * Width(frame)
RowOfPixel(k) == k \div Width(frame)
ColOfPixel(k) == k % Width(frame)
DepthAt(k) == frame.depth[RowOfPixel(k) + 1][ColOfPixel(k) + 1]
ColorAt(k) == frame.color[RowOfPixel(k) + 1][ColOfPixel(k) + 1]

\* depth is finite and strictly greater than 0
FinitePositive(d) == d[1] = "num" /\ d[2] > 0
ValidPixels == {k \in 0..(NPixels - 1) : FinitePositive(DepthAt(k))}

\* The position in the body of the vertex of valid pixel k, if the body
\* lists the valid pixels once each in row-major order.
RowIndex(k) == Cardinality({j \in ValidPixels : j <= k})

TestDepth == << <<Q(1, 10), Q(-1, 2)>>, <<PInf, NaN>> >>

\* C3: to_ply_bytes emits a vertex for a pixel iff its depth is finite and
\* > 0: the body has one row per such pixel, in pixel order, carrying that
\* pixel's depth, and no other row; depth [[0.1,-0.5],[inf,nan]] gives
\* exactly one vertex.
C3_VertexIffFinitePositiveDepth ==
    PlyDone =>
        /\ Len(out.ply.rows) = Cardinality(ValidPixels)
        /\ \A k \in ValidPixels : out.ply.rows[RowIndex(k)][3] = DepthAt(k)
        /\ \A i \in 1..Len(out.ply.rows) : FinitePositive(out.ply.rows[i][3])
        /\ (frame.depth = TestDepth => Len(out.ply.rows) = 1)

C3_Witness ==
    /\ PlyDone
    /\ frame.depth = TestDepth
    /\ Len(out.ply.rows) = 1
    /\ out.ply.rows[1][3] = Q(1, 10)

\* C4: the count of the `element vertex N` header line equals the number of
\* rows of the body, and a frame without any valid depth encodes to N = 0
\* with an empty body under the full nine-property header.
C4_HeaderCountEqualsRows ==
    PlyDone =>
        /\ out.ply.count = Len(out.ply.rows)
        /\ (ValidPixels = {} =>
                /\ out.ply.count = 0
                /\ out.ply.rows = <<>>
                /\ Len(out.ply.props) = 9)

C4_Witness ==
    /\ PlyDone
    /\ NPixels > 1
    /\ ValidPixels = {}
    /\ out.ply.count = 0
    /\ out.ply.rows = <<>>

\* floor(clamp(255 * c, 0, 255)) of a finite c
ClampedByte(c) ==
    IF c[2] <= 0 THEN 0
    ELSE IF c[2] >= c[3] THEN 255
    ELSE (255 * c[2]) \div c[3]

\* C5: every color byte of an emitted vertex is the color component times
\* 255, clamped to [0,255] and truncated (1.5 gives 255, -0.5 gives 0).
C5_ColorByteClamped ==
    PlyDone =>
        \A k \in ValidPixels :
            /\ RowIndex(k) <= Len(out.ply.rows)
            /\ \A c \in 1..3 :
                   out.ply.rows[RowIndex(k)][6 + c] = ClampedByte(ColorAt(k)[c])

NineProperties == <<"x", "y", "z", "nx", "ny", "nz", "red", "green", "blue">>
PlyProduced == out.op \in {"to_ply_bytes", "convert_exr_to_ply",
                           "convert_exr_to_ply_no_normals"}

\* C6: every PLY the program produces declares exactly the properties
\* x, y, z, nx, ny, nz, red, green, blue in that order, and every row
\* carries nine values in that order.
C6_NinePropertiesInOrder ==
    PlyProduced =>
        /\ out.ply.props = NineProperties
        /\ \A i \in 1..Len(out.ply.rows) : Len(out.ply.rows[i]) = 9

\* The camera carries an intrinsics object whose fx, fy, cx, cy are all
\* numbers.
CameraIntrinsicsComplete ==
    /\ frame.camera.camera_intrinsics.state = "object"
    /\ \A k \in {"fx", "fy", "cx", "cy"} : IsNum(frame.camera.camera_intrinsics[k])

CameraFour ==
    LET i == frame.camera.camera_intrinsics IN <<i.fx, i.fy, i.cx, i.cy>>

DefaultFour ==
    <<Z(IF Width(frame) >= Height(frame) THEN Width(frame) ELSE Height(frame)),
      Z(IF Width(frame) >= Height(frame) THEN Width(frame) ELSE Height(frame)),
      Q(Width(frame), 2), Q(Height(frame), 2)>>

\* row is the pinhole unprojection of pixel k under k4 = <<fx, fy, cx, cy>>
\* (fx, fy nonzero), stated without division:
\* x * fx = (u - cx) * z, y * fy = (v - cy) * z, z = z.
IsUnprojection(row, k, k4) ==
    /\ FMul(row[1], k4[1]) = FMul(FSub(Z(ColOfPixel(k)), k4[3]), DepthAt(k))
    /\ FMul(row[2], k4[2]) = FMul(FSub(Z(RowOfPixel(k)), k4[4]), DepthAt(k))
    /\ row[3] = DepthAt(k)

\* C7: with fx, fy, cx, cy all present, the vertex of the pixel in column u
\* and row v with depth z is ((u - cx) z / fx, (v - cy) z / fy, z);
\* fx = fy = 100, cx = cy = 0.5, depth 1 at pixel (0,0) gives
\* (-0.005, -0.005, 1).
C7_PinholeUnprojection ==
    (PlyDone /\ CameraIntrinsicsComplete) =>
        /\ \A k \in ValidPixels :
               IsUnprojection(out.ply.rows[RowIndex(k)], k, CameraFour)
        /\ (/\ CameraFour = <<Z(100), Z(100), Q(1, 2), Q(1, 2)>>
            /\ DepthAt(0) = Z(1))
           => /\ out.ply.rows[1][1] = Q(-5, 1000)
              /\ out.ply.rows[1][2] = Q(-5, 1000)
              /\ out.ply.rows[1][3] = Z(1)

C7_Witness ==
    /\ PlyDone
    /\ CameraFour = <<Z(2), Z(3), Z(1), Z(0)>>
    /\ Height(frame) > 1 /\ Width(frame) > 1
    /\ DepthAt(NPixels - 1) = Z(5)
    /\ out.ply.rows[NPixels][1] = Q(5 * (Width(frame) - 2), 2)
    /\ out.ply.rows[NPixels][2] = Q(5 * (Height(frame) - 1), 3)

\* C8: the four intrinsics used for unprojection are the camera's four when
\* the camera has all four, and the four defaults max(w,h), max(w,h), w/2,
\* h/2 in every other case (camera_intrinsics null or absent, an attribute
\* missing, None or no number): never a mix.
C8_IntrinsicsAllOrNone ==
    PlyDone =>
        \A k \in ValidPixels :
            IsUnprojection(out.ply.rows[RowIndex(k)], k,
                           IF CameraIntrinsicsComplete THEN CameraFour ELSE DefaultFour)

C8_Witness ==
    /\ PlyDone
    /\ frame.camera.camera_intrinsics.state = "object"
    /\ frame.camera.camera_intrinsics.fx = Z(2)
    /\ frame.camera.camera_intrinsics.cy = PyNone
    /\ Width(frame) = 3 /\ Height(frame) = 1
    /\ DepthAt(0) = Z(1)
    /\ out.ply.rows[1][1] = Q(-1, 2)

CentrePixel == (Height(frame) \div 2) * Width(frame) + (Width(frame) \div 2)

DefaultSquare ==
    /\ PlyDone
    /\ frame.camera.camera_intrinsics.state = "null"
    /\ Height(frame) = Width(frame)
    /\ CentrePixel \in ValidPixels

\* C9 as claimed: without intrinsics, the centre pixel of every N x N image
\* unprojects to exactly (0, 0, z).
C9_CentreAtOrigin ==
    DefaultSquare =>
        LET row == out.ply.rows[RowIndex(CentrePixel)]
        IN  row[1] = Z(0) /\ row[2] = Z(0) /\ row[3] = DepthAt(CentrePixel)

\* C9 as amended: for even N the pixel (N/2, N/2) unprojects to exactly
\* (0, 0, z); for odd N the middle pixel ((N-1)/2, (N-1)/2) unprojects to
\* (-z/(2N), -z/(2N), z).
C9_CentreEvenOdd ==
    DefaultSquare =>
        LET row == out.ply.rows[RowIndex(CentrePixel)]
            n == Width(frame)
            z == DepthAt(CentrePixel)
        IN  /\ row[3] = z
            /\ (n % 2 = 0 => row[1] = Z(0) /\ row[2] = Z(0))
            /\ (n % 2 = 1 => /\ row[1] = Q(-z[2], 2 * n * z[3])
                             /\ row[2] = Q(-z[2], 2 * n * z[3]))

C9_Witness ==
    /\ DefaultSquare
    /\ Width(frame) = 2
    /\ DepthAt(CentrePixel) = Z(5)
    /\ out.ply.rows[RowIndex(CentrePixel)] [1] = Z(0)
    /\ out.ply.rows[RowIndex(CentrePixel)] [2] = Z(0)
    /\ out.ply.rows[RowIndex(CentrePixel)] [3] = Z(5)

\* floor(clamp(x, 0, 1) * 255) of an element that is not NaN
FloorByte(x) ==
    IF x[1] = "inf" THEN (IF x[2] > 0 THEN 255 ELSE 0)
    ELSE IF x[2] <= 0 THEN 0
    ELSE IF x[2] >= x[3] THEN 255
    ELSE (255 * x[2]) \div x[3]

\* The buffer an image encoder reads, as an image of channel lists.
EncodedBuffer ==
    IF out.op = "to_depth_png_bytes"
    THEN [v \in 1..Height(frame) |-> [u \in 1..Width(frame) |-> <<frame.depth[v][u]>>]]
    ELSE IF out.op = "to_normal_png_bytes" THEN frame.normal
    ELSE frame.color

PngDone == out.op \in {"to_depth_png_bytes", "to_normal_png_bytes", "to_color_png_bytes"}

\* C10: the raster encoder maps every element x (other than NaN, for which
\* clamp is undefined) to floor(clamp(x,0,1) * 255): 0 -> 0, 0.25 -> 63,
\* 0.5 -> 127, 0.8 -> 204, 1 -> 255, x < 0 -> 0, x > 1 -> 255.
C10_RasterByteIsFloor ==
    PngDone =>
        /\ Len(out.png) = Height(frame)
        /\ \A v \in 1..Height(frame) : \A u \in 1..Width(frame) :
            /\ Len(out.png[v][u]) = Len(EncodedBuffer[v][u])
            /\ \A c \in 1..Len(EncodedBuffer[v][u]) :
                LET x == EncodedBuffer[v][u][c]
                    byte == out.png[v][u][c]
                IN  /\ ~IsNaN(x) => byte = FloorByte(x)
                    /\ x = Z(0) => byte = 0
                    /\ x = Q(1, 4) => byte = 63
                    /\ x = Q(1, 2) => byte = 127
                    /\ x = Q(4, 5) => byte = 204
                    /\ x = Z(1) => byte = 255
                    /\ (IsNum(x) /\ x[2] < 0) => byte = 0
                    /\ (IsNum(x) /\ x[2] > x[3]) => byte = 255

C10_Witness ==
    /\ out.op = "to_color_png_bytes"
    /\ frame.color[1][1] = <<Q(1, 2), Z(0), Q(3, 2)>>
    /\ out.png[1][1] = <<127, 0, 255>>

\* Vocabulary of the claims about decoding the artifacts of a pass.
PlyDecoded == dec.op = "ply" /\ dec.status = "ok"
PlyDecodeTried == dec.op = "ply" /\ dec.status # "none"
DeclaresAll(a, names) == \A ch \in names : Declares(a.channels, ch)
PropIndex(props, name) == CHOOSE k \in 1..Len(props) : props[k] = name
RowNormal(ply, i) ==
    <<ply.rows[i][PropIndex(ply.props, "nx")], ply.rows[i][PropIndex(ply.props, "ny")],
      ply.rows[i][PropIndex(ply.props, "nz")]>>

\* C11: a pass whose normal artifact declares neither X, Y, Z nor R, G, B
\* still decodes, and then every vertex of the point cloud carries the
\* default normal (0, 0, 1); with X, Y, Z (else R, G, B) declared the
\* vertices carry normals read from those channels.
C11_NormalNeverMissing ==
    (PlyDecoded /\ exr.normal.exists) =>
        /\ \A ch \in {"nx", "ny", "nz"} : Declares(dec.ply.props, ch)
        /\ DeclaresAll(exr.normal, {"X", "Y", "Z"}) =>
                dec.normal_channels = <<"X", "Y", "Z">>
        /\ (~DeclaresAll(exr.normal, {"X", "Y", "Z"})
                /\ DeclaresAll(exr.normal, {"R", "G", "B"})) =>
                dec.normal_channels = <<"R", "G", "B">>
        /\ (~DeclaresAll(exr.normal, {"X", "Y", "Z"})
                /\ ~DeclaresAll(exr.normal, {"R", "G", "B"})) =>
                \A i \in 1..Len(dec.ply.rows) :
                    RowNormal(dec.ply, i) = <<Z(0), Z(0), Z(1)>>

\* C12: the channel read as depth is the first name of Z, Depth, R, G, B, A
\* that the depth artifact declares, and the first channel the artifact
\* declares when it declares none of them.
DepthPriority == <<"Z", "Depth", "R", "G", "B", "A">>

C12_DepthChannelPriority ==
    (dec.op = "ply" /\ dec.depth_channel # "none" /\ Len(exr.depth.channels) > 0) =>
        /\ \A i \in 1..Len(DepthPriority) :
            (/\ Declares(exr.depth.channels, DepthPriority[i])
             /\ \A j \in 1..(i - 1) : ~Declares(exr.depth.channels, DepthPriority[j]))
            => dec.depth_channel = DepthPriority[i]
        /\ (\A i \in 1..Len(DepthPriority) : ~Declares(exr.depth.channels, DepthPriority[i]))
            => dec.depth_channel = exr.depth.channels[1]

\* A depth artifact that declares R before the other listed names it holds
\* is read through R, and one that declares only unlisted names through
\* the first of them.
C12_Witness ==
    /\ PlyDecoded
    /\ exr.depth.channels = <<"A", "B", "G", "R">>
    /\ dec.depth_channel = "R"

\* C13: when the three artifacts of a pass do not declare the same height
\* and width, converting them fails and gives no point cloud.
SameShape(a, b) == a.height = b.height /\ a.width = b.width

C13_ShapeMismatchFails ==
    (/\ PlyDecodeTried
     /\ exr.normal.exists
     /\ ~(SameShape(exr.color, exr.depth) /\ SameShape(exr.color, exr.normal)))
    => (dec.status = "error" /\ dec.ply = EmptyPly)

\* Vocabulary of the claim about the normals of the point cloud.
NormalAt(k) == frame.normal[RowOfPixel(k) + 1][ColOfPixel(k) + 1]
WrittenNormal(k) ==
    <<out.ply.rows[RowIndex(k)][4], out.ply.rows[RowIndex(k)][5],
      out.ply.rows[RowIndex(k)][6]>>
RotationVector == <<frame.camera.pose[4], frame.camera.pose[5], frame.camera.pose[6]>>
Cross(a, n) ==
    <<FSub(FMul(a[2], n[3]), FMul(a[3], n[2])),
      FSub(FMul(a[3], n[1]), FMul(a[1], n[3])),
      FSub(FMul(a[1], n[2]), FMul(a[2], n[1]))>>
\* The squared angle rx^2 + ry^2 + rz^2 of the axis-angle vector.
AngleSquared(a) ==
    FSub(FMul(a[1], a[1]),
         FSub(Z(0), FSub(FMul(a[2], a[2]), FSub(Z(0), FMul(a[3], a[3])))))
\* A rotation by an angle strictly between 0 and 2 pi (4 pi^2 > 39) moves
\* every vector that is not parallel to its axis.
MovesVector(a, n) ==
    /\ FLess(Z(0), AngleSquared(a)) /\ FLess(AngleSquared(a), Z(39))
    /\ Cross(a, n) # <<Z(0), Z(0), Z(0)>>

\* C14: the normal written for a vertex is the decoded normal of its pixel
\* when the camera pose has no rotation, and differs from the decoded
\* normal when the pose's rotation moves that normal.
C14_NormalInCameraSpace ==
    PlyDone =>
        \A k \in ValidPixels :
            /\ RotationVector = <<Z(0), Z(0), Z(0)>> => WrittenNormal(k) = NormalAt(k)
            /\ MovesVector(RotationVector, NormalAt(k)) => WrittenNormal(k) # NormalAt(k)

\* C15: a pass whose normal artifact is missing, or whose depth artifact
\* has no channel to read, is not converted: the caller gets an error.
C15_FatalConditionsSurface ==
    (/\ PlyDecodeTried
     /\ (~exr.normal.exists \/ ~exr.depth.exists \/ ~exr.color.exists
            \/ Len(exr.depth.channels) = 0
            \/ ~DeclaresAll(exr.color, {"R", "G", "B"})))
    => dec.status = "error"

\* Vocabulary of the claims about render invocations.
IsResult(o) == o \in {"png_bytes", "ply_bytes", "frame"}
ProcessFailed(r) == returncode[r] # {} /\ returncode[r] # {0}
ReadsFiles(r) == pc[r] \in {"spawn", "await", "decode"}

\* C16: a render invocation starts the render process at most twice, never
\* starts it again once it has decoded artifacts, and ends without a result
\* when the process it started last exited non-zero.
C16_AtMostOneRetry ==
    \A r \in Renders :
        /\ starts[r] <= 2
        /\ decoded[r] => starts[r] = 1
        /\ (pc[r] = "ended" /\ ProcessFailed(r)) => ~IsResult(outcome[r])

C16_Witness ==
    \E r \in Renders :
        /\ pc[r] = "ended" /\ ProcessFailed(r)
        /\ starts[r] = 1 /\ outcome[r] = "RuntimeError"

\* C17: while an invocation's process or decoder reads its files, its input
\* descriptor and its output directory exist and are the ones it created
\* itself: no other invocation has removed, replaced or taken them.
C17_InvocationsDoNotShareFiles ==
    \A r \in Renders :
        ReadsFiles(r) =>
            /\ <<input_path[r], r>> \in files
            /\ <<output_path[r], r>> \in files
            /\ \A f \in files :
                f[1] \in {input_path[r], output_path[r]} => f[2] = r
            /\ \A r2 \in Renders \ {r} :
                ReadsFiles(r2) => /\ input_path[r2] # input_path[r]
                                  /\ output_path[r2] # output_path[r]

\* One invocation has torn down and returned while the other still decodes,
\* and the other one reuses the freed name for its own directory.
C17_Witness ==
    \E r \in Renders, r2 \in Renders :
        /\ r # r2
        /\ pc[r] = "ended" /\ IsResult(outcome[r])
        /\ pc[r2] = "decode"
        /\ input_path[r2] = input_path[r]

\* C18: no encoder changes the frame, a to_ply_bytes call gives the bytes
\* the first to_ply_bytes call on the frame gave, whatever encoders were
\* called in between, and those bytes do not depend on the camera's id or
\* pose.
C18_PlyEncodingRepeatable ==
    [][ /\ frame' = frame
        /\ (out'.op = "to_ply_bytes" /\ ply_log.calls > 0) => out'.ply = ply_log.first
        /\ out'.op = "to_ply_bytes" =>
              out'.ply = to_ply_bytes([frame EXCEPT !.camera.id = "other_camera",
                                                    !.camera.pose = ZeroPose], build)
      ]_vars

\* A second to_ply_bytes call, after another encoder ran since the first,
\* on a frame that yields vertices under a camera with a rotated pose.
C18_Witness ==
    /\ out.op = "to_ply_bytes"
    /\ ply_log.calls = 2 /\ ply_log.between
    /\ out.ply.count > 0
    /\ out.ply = ply_log.first
    /\ frame.camera.pose # ZeroPose


\* The cameras a registry stores, and the ids that history says are registered.
StoredCameras == {entities[i] : i \in {j \in 1..Len(entities) : entities[j].type = "Camera"}}
RegisteredIn(l) == {i \in DOMAIN l : l[i] # "none"}
ObjectsOf(list) == {list[i].obj : i \in 1..Len(list)}

C20_RegistryFollowsLatestAdd ==
    [][ /\ resp'.op = "get_entity" =>
              IF latest'[resp'.arg] = "none" THEN resp'.value = <<>>
              ELSE /\ Len(resp'.value) = 1
                   /\ resp'.value[1].obj = latest'[resp'.arg]
                   /\ resp'.value[1].id = resp'.arg
        /\ resp'.op = "get_entities" =>
              /\ ObjectsOf(resp'.value) = {latest'[i] : i \in RegisteredIn(latest')}
              /\ Len(resp'.value) = Cardinality(RegisteredIn(latest'))
        /\ (resp'.op = "delete_entity" /\ latest[resp'.arg] = "none") =>
              entities' = entities /\ resp'.status = "ok"
      ]_vars

\* get_entity("a") gave the camera object added under "a" while "b" is
\* registered too and the plain entity with the id "a" is not stored.
C20_Witness ==
    /\ resp.op = "get_entity" /\ resp.arg = "a"
    /\ resp.value = <<Entity("a", "Camera", ZeroPose, "o2")>>
    /\ Len(entities) = 2
    /\ latest["b"] = "o3"

\* C21: create_camera(pose, camera_intrinsics), either argument optional,
\* returns a new Camera and adds exactly that one entity to the registry
\* without replacing another: its id is a non-empty string no registered
\* entity had, its pose is the supplied pose or six zeros, and its
\* camera_intrinsics is the supplied object or None.
C21_CreateCameraAddsFreshCamera ==
    [][ \A given \in BOOLEAN, pose \in PoseInputs, intr \in IntrinsicsInputs :
          CreateCamera(given, pose, intr) =>
            /\ resp'.status = "ok"
            /\ Len(resp'.value) = 1
            /\ resp'.value[1].type = "Camera"
            /\ resp'.value[1].id # ""
            /\ ~DictHas(entities, resp'.value[1].id)
            /\ entities' = Append(entities, resp'.value[1])
            /\ resp'.value[1].pose = (IF given THEN pose ELSE SixZeros)
            /\ resp'.value[1].camera_intrinsics =
                   (IF intr.state = "absent" THEN IntrNull ELSE intr)
      ]_vars

\* C28: CameraModel never returns or removes an entity that is no Camera:
\* get_cameras lists exactly the registered cameras, get_camera of the id
\* of a non-camera entity gives None, and delete_camera of such an id leaves
\* the registry as it was.
C28_CameraModelTouchesOnlyCameras ==
    [][ /\ resp'.op = "get_cameras" =>
              /\ \A i \in 1..Len(resp'.value) : resp'.value[i].type = "Camera"
              /\ {resp'.value[i] : i \in 1..Len(resp'.value)} = StoredCameras
        /\ \A id \in Ids \cup Uuids :
              (DictHas(entities, id) /\ DictGet(entities, id).type # "Camera") =>
                  /\ GetCamera(id) => resp'.value = <<>>
                  /\ DeleteCamera(id) => entities' = entities
      ]_vars

\* The blend file at the path of a registered scene, as a set (empty when
\* the file is gone), and the entity registry of a registered scene.
FileOf(d, sc, sid) == {f \in d : f[1] = DictGet(sc, sid).blend_path}
EntitiesOf(sc, sid) == DictGet(sc, sid).entities

\* C22: the blend files on disk are files of registered scenes and hold the
\* bytes that were uploaded; create_scene registers one more scene under an
\* id that was not registered, with its file written; delete_scene of a
\* registered id removes the entry and the file (the entry also when the
\* file is gone already), delete_scene of another id changes nothing; and
\* only a removal from outside takes the file of a registered scene away.
C22_BlendFilesFollowScenes ==
    [][ /\ \A f \in disk' : \E i \in 1..Len(scenes') :
              scenes'[i].blend_path = f[1] /\ scenes'[i].uploaded = f[2]
        /\ \A b \in BlendBytes : CreateScene(b) =>
              /\ ~DictHas(scenes, resp'.arg) /\ DictHas(scenes', resp'.arg)
              /\ Len(scenes') = Len(scenes) + 1
              /\ FileOf(disk', scenes', resp'.arg) = {<<DictGet(scenes', resp'.arg).blend_path, b>>}
        /\ \A n \in SceneNames : DeleteScene(n) =>
              IF DictHas(scenes, n)
              THEN /\ ~DictHas(scenes', n)
                   /\ Len(scenes') = Len(scenes) - 1
                   /\ FileOf(disk', scenes, n) = {}
              ELSE scenes' = scenes /\ disk' = disk
        /\ resp'.op # "unlink" =>
              \A n \in SceneNames : (DictHas(scenes, n) /\ DictHas(scenes', n)) =>
                  FileOf(disk', scenes', n) = FileOf(disk, scenes, n)
      ]_vars

\* delete_scene has removed a scene whose file was gone already; the other
\* scene is registered with its file holding its bytes.
C22_Witness ==
    /\ resp.op = "delete_scene"
    /\ generated = SceneNames
    /\ Len(scenes) = 1
    /\ disk = {<<scenes[1].blend_path, "y">>}
    /\ scenes[1].id = "s1"

\* C25: a DELETE request for a scene id or an entity id that is not
\* registered is answered 404 and leaves the registries as they were; a
\* DELETE of a registered id succeeds.
C25_DeleteOfUnknownIdIs404 ==
    [][ /\ \A n \in SceneNames : DeleteScene(n) =>
              IF DictHas(scenes, n) THEN resp'.status = "ok"
              ELSE resp'.status = "404" /\ scenes' = scenes
        /\ \A n \in SceneNames, id \in Ids \cup Uuids : RouteDeleteEntity(n, id) =>
              IF DictHas(scenes, n) /\ DictHas(EntitiesOf(scenes, n), id)
              THEN resp'.status = "ok"
              ELSE resp'.status = "404" /\ scenes' = scenes
      ]_vars

\* C26: a set-pose request replaces the stored pose of the entity it names
\* only when the scene exists, the entity exists, the entity has a pose and
\* the new pose passes validate_pose; every other request is rejected (404
\* for a missing scene or entity, 400 for an entity without pose or an
\* invalid pose) and changes no stored pose.
C26_SetPoseOnlyWhenValid ==
    [][ \A n \in SceneNames, id \in Ids \cup Uuids, pose \in ScenePoses :
          RouteSetEntityPose(n, id, pose) =>
            IF ~DictHas(scenes, n) THEN resp'.status = "404" /\ scenes' = scenes
            ELSE IF ~DictHas(EntitiesOf(scenes, n), id)
            THEN resp'.status = "404" /\ scenes' = scenes
            ELSE IF DictGet(EntitiesOf(scenes, n), id).type # "Camera"
                    \/ Len(pose) # 6
                    \/ \E i \in 1..Len(pose) : ~(IsNum(pose[i]) \/ IsNaN(pose[i]) \/ IsInf(pose[i]))
            THEN resp'.status = "400" /\ scenes' = scenes
            ELSE /\ resp'.status = "ok"
                 /\ DictGet(EntitiesOf(scenes', n), id).pose = pose
                 /\ \A m \in SceneNames, j \in Ids \cup Uuids :
                      (DictHas(scenes, m) /\ DictHas(EntitiesOf(scenes, m), j)) =>
                        /\ DictHas(scenes', m) /\ DictHas(EntitiesOf(scenes', m), j)
                        /\ (<<m, j>> # <<n, id>> =>
                              DictGet(EntitiesOf(scenes', m), j) = DictGet(EntitiesOf(scenes, m), j))
      ]_vars

\* A set-pose request was accepted: the camera "b" of scene "s1" has the
\* pose of the request, no longer six zeros.
C26_Witness ==
    /\ resp.op = "PUT pose" /\ resp.status = "ok"
    /\ DictHas(scenes, "s1")
    /\ DictHas(EntitiesOf(scenes, "s1"), "b")
    /\ DictGet(EntitiesOf(scenes, "s1"), "b").pose \in ScenePoses

\* C29: adding, changing or deleting an entity of one scene, and deleting
\* that scene, leaves every other registered scene registered, with the
\* same entities and the same blend file.
C29_ScenesAreIsolated ==
    [][ \A n \in SceneNames :
          ( \/ DeleteScene(n)
            \/ \E e \in SceneEntityInputs(n) : SceneAddEntity(n, e)
            \/ \E id \in Ids \cup Uuids : RouteDeleteEntity(n, id)
            \/ \E id \in Ids \cup Uuids, pose \in ScenePoses : RouteSetEntityPose(n, id, pose) )
          => \A m \in SceneNames \ {n} : DictHas(scenes, m) =>
                /\ DictHas(scenes', m)
                /\ DictGet(scenes', m) = DictGet(scenes, m)
                /\ FileOf(disk', scenes', m) = FileOf(disk, scenes, m)
      ]_vars

\* Both scenes hold a camera "b"; a set-pose request has changed the one of
\* scene "s2" while the one of scene "s1" still has six zeros.
C29_Witness ==
    /\ resp.op = "PUT pose" /\ resp.status = "ok"
    /\ Len(scenes) = 2
    /\ DictHas(EntitiesOf(scenes, "s1"), "b") /\ DictHas(EntitiesOf(scenes, "s2"), "b")
    /\ DictGet(EntitiesOf(scenes, "s1"), "b").pose = SixZeros
    /\ DictGet(EntitiesOf(scenes, "s2"), "b").pose # SixZeros

\* C23: validate_pose(p) is True exactly when p is a list of 6 items that
\* are all floats: a list with an int, a str or None among its items, a list
\* of another length, a tuple, a dict and None give False; NaN and infinite
\* floats count as floats.
C23_ValidPoseIsSixFloats ==
    resp.op = "validate_pose" =>
        ( resp.status = "True" <=>
            /\ resp.arg = "list"
            /\ Len(resp.value) = 6
            /\ \A i \in 1..Len(resp.value) :
                  IsNum(resp.value[i]) \/ IsNaN(resp.value[i]) \/ IsInf(resp.value[i]) )

\* validate_pose accepted a list of six floats that holds NaN and infinity.
C23_Witness ==
    /\ resp.op = "validate_pose" /\ resp.status = "True"
    /\ resp.value[1] = NaN
    /\ resp.value[2] = PInf

\* C24: within one render invocation the input descriptor is written, then
\* the output directory is created, then the process is started and awaited
\* to its end, then the artifacts are decoded, and only then the temporary
\* files are removed: no artifact is read once the output directory is
\* gone, and a result handed to the caller was decoded before the teardown.
C24_StepsInOrder ==
    [][ \A r \in Renders :
          /\ output_path'[r] # output_path[r] => <<input_path[r], r>> \in files
          /\ starts'[r] # starts[r] =>
                <<input_path[r], r>> \in files /\ <<output_path[r], r>> \in files
          /\ decoded'[r] # decoded[r] =>
                /\ starts[r] > 0 /\ returncode[r] = {0}
                /\ <<input_path[r], r>> \in files /\ <<output_path[r], r>> \in files
          /\ (\E f \in files \ files' : f[2] = r) =>
                /\ starts'[r] = starts[r] /\ decoded'[r] = decoded[r]
                /\ pc[r] \notin {"idle", "mkdir", "spawn", "await", "decode"}
                /\ decoded[r] \/ pending[r] # "none"
          /\ (outcome'[r] # outcome[r] /\ IsResult(outcome'[r])) =>
                /\ decoded[r] /\ pending[r] = "none"
                /\ outcome'[r] = ReturnValue(kind[r])
      ]_vars

\* An invocation has returned the point cloud it decoded after its process
\* ended with exit code 0; its descriptor and its output directory are gone.
C24_Witness ==
    \E r \in Renders :
        /\ pc[r] = "ended" /\ outcome[r] = "ply_bytes"
        /\ decoded[r] /\ returncode[r] = {0} /\ starts[r] = 1
        /\ \A f \in files : f[2] # r

\* C27: for the same depth, normal and color buffers and a camera without
\* intrinsics, Blender._convert_exr_to_ply and Frame.to_ply_bytes emit the
\* same pixels as vertices, in the same order, each with the same position
\* and the same color bytes.
C27_EncodersAgree ==
    (out.op = "convert_exr_to_ply" /\ frame.camera.camera_intrinsics.state = "null") =>
        /\ out.ply.count = to_ply_bytes(frame, build).count
        /\ Len(out.ply.rows) = Len(to_ply_bytes(frame, build).rows)
        /\ \A i \in 1..Len(out.ply.rows) :
              \A name \in {"x", "y", "z", "red", "green", "blue"} :
                  out.ply.rows[i][PropIndex(out.ply.props, name)]
                    = to_ply_bytes(frame, build).rows[i][PropIndex(FrameDtype, name)]

\* C30: a render uses the camera as it was when the render was invoked: the
\* descriptor written at the start is not changed by a set-pose or delete
\* request that comes while the invocation is under way, the render process
\* reads that descriptor, and no step of the render changes the registry.
C30_RenderUsesSnapshot ==
    [][ \A r \in Renders :
          /\ pc[r] # "idle" => descriptor'[r] = descriptor[r]
          /\ rendered'[r] # rendered[r] => rendered'[r] = descriptor[r]
          /\ pc'[r] # pc[r] => entities' = entities
      ]_vars

\* A render has returned its result for the registered camera "b", read
\* with six zeros as pose, and the registry now holds another pose for "b".
C30_Witness ==
    \E r \in Renders :
        /\ pc[r] = "ended" /\ IsResult(outcome[r])
        /\ rendered[r].id = "b" /\ rendered[r].pose = SixZeros
        /\ DictHas(entities, "b")
        /\ DictGet(entities, "b").pose # SixZeros
=============================================================================
